---- MODULE Spec2Model ----
(***************************************************************************)
(* A model of the SOC report extraction service (src/app/app.py): the page *)
(* segmenter, the control merge/dedup engine, the criteria reconciliation  *)
(* and the phased, cursor-driven extraction request with its retry         *)
(* wrapper.  Text is modelled as sequences of one-character strings so     *)
(* that trimming, case folding and number formatting are computed.         *)
(***************************************************************************)
EXTENDS Integers, Sequences, FiniteSets, TLC

(***************************************************************************)
(* Text helpers: Python's str.strip(), str.lower(), str.upper(), int()     *)
(* and the f-string formats used by the code, on ASCII text.               *)
(***************************************************************************)
WhiteSpace == {" ", "\t", "\n"}

UpperChars == <<"A","B","C","D","E","F","G","H","I","J","K","L","M",
                "N","O","P","Q","R","S","T","U","V","W","X","Y","Z">>

LowerChars == <<"a","b","c","d","e","f","g","h","i","j","k","l","m",
                "n","o","p","q","r","s","t","u","v","w","x","y","z">>

DigitChars == <<"0","1","2","3","4","5","6","7","8","9">>

LowerChar(ch) ==
    IF \E k \in 1..Len(UpperChars) : UpperChars[k] = ch
    THEN LowerChars[CHOOSE k \in 1..Len(UpperChars) : UpperChars[k] = ch]
    ELSE ch

UpperChar(ch) ==
    IF \E k \in 1..Len(LowerChars) : LowerChars[k] = ch
    THEN UpperChars[CHOOSE k \in 1..Len(LowerChars) : LowerChars[k] = ch]
    ELSE ch

Lower(s) == [k \in 1..Len(s) |-> LowerChar(s[k])]

Upper(s) == [k \in 1..Len(s) |-> UpperChar(s[k])]

RECURSIVE LStrip(_)
LStrip(s) ==
    IF s # <<>> /\ Head(s) \in WhiteSpace THEN LStrip(Tail(s)) ELSE s

RECURSIVE RStrip(_)
RStrip(s) ==
    IF s # <<>> /\ s[Len(s)] \in WhiteSpace
    THEN RStrip(SubSeq(s, 1, Len(s) - 1)) ELSE s

Strip(s) == RStrip(LStrip(s))

IsDigitChar(ch) == \E k \in 1..Len(DigitChars) : DigitChars[k] = ch

DigitVal(ch) == (CHOOSE k \in 1..Len(DigitChars) : DigitChars[k] = ch) - 1

\* str.isdigit() on ASCII text: non-empty and all digits
IsDigit(s) == s # <<>> /\ \A k \in 1..Len(s) : IsDigitChar(s[k])

RECURSIVE StrToInt(_)
StrToInt(s) ==
    IF s = <<>> THEN 0
    ELSE 10 * StrToInt(SubSeq(s, 1, Len(s) - 1)) + DigitVal(s[Len(s)])

RECURSIVE IntToStr(_)
IntToStr(n) ==
    IF n < 10 THEN <<DigitChars[n + 1]>>
    ELSE IntToStr(n \div 10) \o <<DigitChars[(n % 10) + 1]>>

RECURSIVE ZeroPad(_, _)
ZeroPad(s, width) == IF Len(s) >= width THEN s ELSE ZeroPad(<<"0">> \o s, width)

(***************************************************************************)
(* Bounds of the model.                                                    *)
(***************************************************************************)
MaxMergePasses == 3
MaxBatch == 2
MaxMappings == 2
MaxCritControls == 1
MaxPages == 3
MaxPasses == 2
MaxRequests == 4

\* AppConfig.MAX_RETRIES
MAX_RETRIES == 3

BoundedSeq(S, n) == UNION {[1..k -> S] : k \in 0..n}

SeqToSet(s) == {s[k] : k \in 1..Len(s)}

VARIABLES
    \* ---- merge_controls passes (the primary-control accumulation) ----
    merged_controls,   \* the accumulated list (merged_controls, app.py:1188)
    skipped,           \* history: controls of the last batch not appended
    passes,            \* number of passes so far (app.py:1190)
    firstSeenId,       \* history: dedup key -> first non-blank id submitted
    \* ---- merge_criteria_into_controls ----
    controls_in,       \* history: the controls as handed to merge_criteria_into_controls
    criteria_mappings, \* the criterion mappings (app.py:1304)
    final_controls,    \* the returned controls (app.py:1310)
    crit_pc,           \* "ready" before the call, "done" after it
    \* ---- segment_content ----
    seg_pc,            \* "detect", "classify", "build" or "done"
    npages,            \* len(pages)
    page_i,            \* the loop index i of the running loop
    current_section,   \* detect_section_markers' running section (app.py:264)
    section_info,      \* page index -> section number (app.py:263)
    detected,          \* history: detected_section of every scanned page
    classifications,   \* page_classifications (app.py:511)
    struct_table,      \* history: whether the page's structural score is >= 2
    table_parts,       \* app.py:526
    narrative_parts,   \* app.py:527
    \* ---- extract_controls_cursor (one extraction request) ----
    ex_pc,             \* the phase whose collaborator call is next, "render" or "idle"
    attempt,           \* failed attempts of the running invoke_bedrock_with_retry
    slept,             \* history: the wait after the latest attempt (0: none)
    last_outcome,      \* history: "none", "ok", "caught" or "uncaught" (latest attempt)
    cursor,            \* app.py:1189
    subservice_cursor, \* app.py:1234
    user_entity_cursor,\* app.py:1267
    subservice_passes, \* app.py:1235
    user_entity_passes,\* app.py:1268
    merged_subservice, \* app.py:1233
    merged_user_entity,\* app.py:1266
    auditor_opinion,   \* app.py:1178
    exceptions,        \* app.py:1225
    sent_cursor,       \* history: the cursor in the latest instruction sent
    last_resp,         \* history: the meta of the latest response received
    started,           \* history: the phases for which a call was issued
    rendered,          \* history: build_report_docx was called
    docx_raised,       \* history: where build_report_docx raised ("no": nowhere)
    response,          \* the HTTP response (status 0: none yet)
    \* ---- _parse_model_json (one call) ----
    model_text,        \* the text handed to _parse_model_json
    parse_pc,          \* "call" before the call, "done" after it, or "idle"
    parsed,            \* what the call returned or raised
    \* ---- the server: /parse and /extract_cursor requests ----
    PARSED_CACHE,      \* doc_id -> cached document (app.py:89)
    reqs,              \* the requests so far, in order of arrival
    overlapped,        \* history: two requests were in progress at once
    \* ---- one iteration of the loop of detect_section_markers ----
    scan_pc,           \* "scan" before the iteration, "done" after it, or "idle"
    scan_page,         \* the page of the iteration
    scan_before,       \* current_section before the iteration
    scan_after,        \* current_section after the iteration
    scan_recorded      \* section_info[i] as the iteration recorded it

mergeVars == <<merged_controls, skipped, passes, firstSeenId>>

critVars == <<controls_in, criteria_mappings, final_controls, crit_pc>>

segVars == <<seg_pc, npages, page_i, current_section, section_info, detected,
             classifications, struct_table, table_parts, narrative_parts>>

exVars == <<ex_pc, attempt, slept, last_outcome, cursor, subservice_cursor,
            user_entity_cursor, subservice_passes, user_entity_passes,
            merged_subservice, merged_user_entity, auditor_opinion, exceptions,
            sent_cursor, last_resp, started, rendered, docx_raised, response>>

parseVars == <<model_text, parse_pc, parsed>>

srvVars == <<PARSED_CACHE, reqs, overlapped>>

scanVars == <<scan_pc, scan_page, scan_before, scan_after, scan_recorded>>

vars == <<mergeVars, critVars, segVars, exVars, parseVars, srvVars, scanVars>>

(***************************************************************************)
(* Control records.  A missing or null field reads as the empty text, as   *)
(* `c.get(...) or ""` makes it.                                            *)
(***************************************************************************)
\* `criterion` is a JSON list of texts, [list |-> ...], or a bare text,
\* [str |-> ...]; a missing or null one reads as the empty list.
Control(t, d, i) ==
    [control_title |-> t, control_description |-> d, control_id |-> i,
     criterion |-> [list |-> <<>>]]

\* The controls a pass may return: two spellings of one (title, description)
\* with and without an id, a blank id, an id shaped like a synthesized one,
\* and a third id-less control.
ControlPool ==
    { Control(<<"A">>, <<"x">>, <<>>),
      Control(<<"a", " ">>, <<" ", "X">>, <<"7">>),
      Control(<<"B">>, <<"x">>, <<" ">>),
      Control(<<"B">>, <<"x">>, <<"C", "-", "0", "0", "1">>),
      Control(<<"B">>, <<"y">>, <<>>) }

\* _control_key: sha1 of "title|||desc" over the trimmed, lower-cased fields;
\* the digest is modelled by the text it is taken of.
_control_key_raw(c) ==
    c.control_title \o <<"|", "|", "|">> \o c.control_description

_control_key(c) ==
    Lower(Strip(c.control_title)) \o <<"|", "|", "|">>
        \o Lower(Strip(c.control_description))

\* `not (c.get("control_id") or "").strip()`
IdMissing(c) == Strip(c.control_id) = <<>>

\* f"C-{next_id:03d}"
SynthId(next_id) == <<"C", "-">> \o ZeroPad(IntToStr(next_id), 3)

\* the dedup loop of merge_controls (app.py:568-572)
RECURSIVE AppendUnseen(_, _, _)
AppendUnseen(result, seen, rest) ==
    IF rest = <<>> THEN result
    ELSE LET c == Head(rest)
             key == _control_key(c)
         IN IF key \notin seen
            THEN AppendUnseen(Append(result, c), seen \cup {key}, Tail(rest))
            ELSE AppendUnseen(result, seen, Tail(rest))

\* the id assignment loop of merge_controls (app.py:575-579)
RECURSIVE AssignIds(_, _)
AssignIds(result, next_id) ==
    IF result = <<>> THEN <<>>
    ELSE LET c == Head(result)
         IN IF IdMissing(c)
            THEN <<[c EXCEPT !.control_id = SynthId(next_id)]>>
                     \o AssignIds(Tail(result), next_id + 1)
            ELSE <<c>> \o AssignIds(Tail(result), next_id)

\* a merge that would append the whole batch without the dedup loop
merge_controls_appending(old, batch) == AssignIds(old \o batch, 1)

\* a merge that would leave out the id assignment loop
merge_controls_without_ids(old, batch) ==
    AppendUnseen(old, {_control_key(x) : x \in SeqToSet(old)}, batch)

merge_controls(old, batch) ==
    AssignIds(AppendUnseen(old, {_control_key(x) : x \in SeqToSet(old)}, batch), 1)

\* history of the ids submitted per key, in submission order
RECURSIVE NoteIds(_, _)
NoteIds(f, batch) ==
    IF batch = <<>> THEN f
    ELSE LET c == Head(batch)
             key == _control_key(c)
             g == IF key \notin DOMAIN f
                  THEN f @@ (key :> (IF IdMissing(c) THEN <<>> ELSE c.control_id))
                  ELSE IF f[key] = <<>> /\ ~IdMissing(c)
                       THEN [f EXCEPT ![key] = c.control_id]
                       ELSE f
         IN NoteIds(g, Tail(batch))

MergeIdle ==
    /\ merged_controls = <<>>
    /\ skipped = 0
    /\ passes = 0
    /\ firstSeenId = <<>>

CritIdle ==
    /\ controls_in = <<>>
    /\ criteria_mappings = <<>>
    /\ final_controls = <<>>
    /\ crit_pc = "idle"

SegIdle ==
    /\ seg_pc = "idle"
    /\ npages = 0
    /\ page_i = 0
    /\ current_section = 0
    /\ section_info = <<>>
    /\ detected = <<>>
    /\ classifications = <<>>
    /\ struct_table = <<>>
    /\ table_parts = <<>>
    /\ narrative_parts = <<>>

\* a response's meta; a field the response does not carry (or carries as
\* null) reads as "", the flag then as "absent"
Meta(id, idx, desc, more) ==
    [last_control_id |-> id, last_index |-> idx, last_description |-> desc,
     has_more |-> more]

NoMeta == Meta("", "", "", "absent")

NoResponse == [status |-> 0]

ExIdle ==
    /\ ex_pc = "idle"
    /\ attempt = 0
    /\ slept = 0
    /\ last_outcome = "none"
    /\ cursor = ""
    /\ subservice_cursor = ""
    /\ user_entity_cursor = ""
    /\ subservice_passes = 0
    /\ user_entity_passes = 0
    /\ merged_subservice = <<>>
    /\ merged_user_entity = <<>>
    /\ auditor_opinion = ""
    /\ exceptions = <<>>
    /\ sent_cursor = ""
    /\ last_resp = NoMeta
    /\ started = {}
    /\ rendered = FALSE
    /\ docx_raised = "no"
    /\ response = NoResponse

\* JSON values: a number, an object (with the values of its members), or
\* no value at all
JValue(type, items) == [type |-> type, items |-> items]

NoValue == JValue("none", <<>>)

ParseIdle ==
    /\ model_text = <<>>
    /\ parse_pc = "idle"
    /\ parsed = [raised |-> FALSE, value |-> NoValue, step |-> 0]

SrvIdle ==
    /\ PARSED_CACHE = <<>>
    /\ reqs = <<>>
    /\ overlapped = FALSE

ScanIdle ==
    /\ scan_pc = "idle"
    /\ scan_page = <<>>
    /\ scan_before = 0
    /\ scan_after = 0
    /\ scan_recorded = 0

MergeInit ==
    MergeIdle /\ CritIdle /\ SegIdle /\ ExIdle /\ ParseIdle /\ SrvIdle /\ ScanIdle

\* one pass of the accumulation: merged_controls = merge_controls(merged_controls, controls)
MergePass ==
    /\ passes < MaxMergePasses
    /\ \E batch \in BoundedSeq(ControlPool, MaxBatch) :
          /\ merged_controls' = merge_controls(merged_controls, batch)
          /\ skipped' = Len(merged_controls) + Len(batch)
                            - Len(merge_controls(merged_controls, batch))
          /\ firstSeenId' = NoteIds(firstSeenId, batch)
    /\ passes' = passes + 1
    /\ UNCHANGED <<critVars, segVars, exVars, parseVars, srvVars, scanVars>>

MergeNext == MergePass

SpecMerge == MergeInit /\ [][MergeNext]_vars

\* the trimmed, lower-cased (title, description) pair of a control
NormPair(c) ==
    <<Lower(Strip(c.control_title)), Lower(Strip(c.control_description))>>

NoDuplicatePairs(list) ==
    \A a, b \in 1..Len(list) : a # b => NormPair(list[a]) # NormPair(list[b])

IsSynthId(id) == \E n \in 1..999 : id = SynthId(n)

(***************************************************************************)
(* C3: after any sequence of merge_controls passes from the empty list,    *)
(* no two accumulated controls have equal trimmed, lower-cased             *)
(* (title, description) pairs; each pass keeps the accumulated controls    *)
(* where they are and appends only controls whose pair was not present.    *)
(***************************************************************************)
C3_DedupAppendOnly ==
    [][ /\ NoDuplicatePairs(merged_controls')
        /\ Len(merged_controls') >= Len(merged_controls)
        /\ SubSeq(merged_controls', 1, Len(merged_controls)) = merged_controls
        /\ \A j \in (Len(merged_controls) + 1)..Len(merged_controls') :
              \A k \in 1..Len(merged_controls) :
                 NormPair(merged_controls'[j]) # NormPair(merged_controls[k])
      ]_vars

\* a second spelling of an accumulated control, with another id, was submitted
\* in a later pass and dropped
C3_Witness ==
    /\ passes >= 2
    /\ skipped >= 1
    /\ Len(merged_controls) >= 2
    /\ \E k \in 1..Len(merged_controls) :
          /\ merged_controls[k].control_title = <<"A">>
          /\ firstSeenId[_control_key(merged_controls[k])] = <<"7">>

(***************************************************************************)
(* C4: of the controls submitted with one normalized (title, description), *)
(* the surviving entry carries the first-seen non-empty id; a synthesized  *)
(* id is assigned only if none of them had an id.                          *)
(***************************************************************************)
C4_FirstNonEmptyIdKept ==
    \A k \in 1..Len(merged_controls) :
       LET c == merged_controls[k]
           first == firstSeenId[_control_key(c)]
       IN IF first # <<>> THEN c.control_id = first
                          ELSE IsSynthId(c.control_id)

(***************************************************************************)
(* Criteria reconciliation: merge_criteria_into_controls.                  *)
(***************************************************************************)
\* the characters of the model in code point order (Python compares texts
\* by code point)
AsciiOrder ==
    <<"\t", "\n", " ", "-", ".">> \o DigitChars \o UpperChars \o LowerChars \o <<"|">>

CharCode(ch) == CHOOSE k \in 1..Len(AsciiOrder) : AsciiOrder[k] = ch

RECURSIVE StrLess(_, _)
StrLess(a, b) ==
    IF a = <<>> THEN b # <<>>
    ELSE IF b = <<>> THEN FALSE
    ELSE IF Head(a) = Head(b) THEN StrLess(Tail(a), Tail(b))
    ELSE CharCode(Head(a)) < CharCode(Head(b))

\* sorted(set(...)) of texts
RECURSIVE SortedList(_)
SortedList(S) ==
    IF S = {} THEN <<>>
    ELSE LET least == CHOOSE x \in S : \A y \in S \ {x} : StrLess(x, y)
         IN <<least>> \o SortedList(S \ {least})

\* _normalize_control_ref: '1.01' -> '1.1'; the pattern ^(\d+)\.(\d+)$
_normalize_control_ref_strip(ref) == Strip(ref)

_normalize_control_ref(ref) ==
    LET r == Strip(ref)
        dots == {k \in 1..Len(r) : r[k] = "."}
    IN IF Cardinality(dots) = 1
       THEN LET d == CHOOSE k \in dots : TRUE
                major == SubSeq(r, 1, d - 1)
                minor == SubSeq(r, d + 1, Len(r))
            IN IF IsDigit(major) /\ IsDigit(minor)
               THEN IntToStr(StrToInt(major)) \o <<".">> \o IntToStr(StrToInt(minor))
               ELSE r
       ELSE r

\* control_to_criteria is an insertion-ordered dict: a sequence of
\* [ref, crits] entries with distinct refs (app.py:602-609)
RECURSIVE AddRefs(_, _, _)
AddRefs(index, criterion_id, refs) ==
    IF refs = <<>> THEN index
    ELSE LET control_ref == Strip(Head(refs))
             withKey ==
                 IF \E k \in 1..Len(index) : index[k].ref = control_ref
                 THEN index
                 ELSE Append(index, [ref |-> control_ref, crits |-> <<>>])
             withCrit ==
                 [k \in 1..Len(withKey) |->
                    IF /\ withKey[k].ref = control_ref
                       /\ criterion_id \notin SeqToSet(withKey[k].crits)
                    THEN [withKey[k] EXCEPT !.crits = Append(@, criterion_id)]
                    ELSE withKey[k]]
         IN AddRefs(IF control_ref # <<>> THEN withCrit ELSE index,
                    criterion_id, Tail(refs))

\* the loop over criteria_mappings (app.py:598-609)
RECURSIVE BuildIndex(_, _)
BuildIndex(index, mappings) ==
    IF mappings = <<>> THEN index
    ELSE BuildIndex(AddRefs(index, Head(mappings).criterion_id,
                            Head(mappings).mapped_controls),
                    Tail(mappings))

\* control_to_criteria.get(control_id, []) and, on a miss, the first indexed
\* key equal after normalization (app.py:631-638)
MappedCriteria(index, control_id) ==
    LET exact == IF \E k \in 1..Len(index) : index[k].ref = control_id
                 THEN index[CHOOSE k \in 1..Len(index) : index[k].ref = control_id].crits
                 ELSE <<>>
        hits == {k \in 1..Len(index) :
                    _normalize_control_ref(index[k].ref)
                        = _normalize_control_ref(control_id)}
    IN IF exact # <<>> THEN exact
       ELSE IF hits # {}
            THEN index[CHOOSE k \in hits : \A j \in hits : k <= j].crits
            ELSE <<>>

\* app.py:622-625
ExistingCriteria(control) ==
    LET raw == IF "str" \in DOMAIN control.criterion
               THEN IF control.criterion.str # <<>>
                    THEN <<control.criterion.str>> ELSE <<>>
               ELSE control.criterion.list
        NonBlank(c) == Strip(c) # <<>>
        kept == SelectSeq(raw, NonBlank)
    IN [k \in 1..Len(kept) |-> Strip(kept[k])]

\* a slip that would replace the extraction-time criteria by the mapped ones
MergeOneControlReplacing(control, index) ==
    LET mapped_criteria == MappedCriteria(index, Strip(control.control_id))
    IN [control EXCEPT !.criterion = [list |-> SortedList(SeqToSet(mapped_criteria))]]

\* the body of the loop over controls (app.py:618-649)
MergeOneControl(control, index) ==
    LET control_id == Strip(control.control_id)
        existing_criteria == ExistingCriteria(control)
        mapped_criteria == MappedCriteria(index, control_id)
        existing_set == SeqToSet(existing_criteria)
        IsNew(c) == c \notin existing_set
        new_criteria == SelectSeq(mapped_criteria, IsNew)
        all_criteria == existing_criteria \o new_criteria
    IN [control EXCEPT !.criterion =
            [list |-> IF all_criteria # <<>>
                      THEN SortedList(SeqToSet(all_criteria)) ELSE <<>>]]

merge_criteria_into_controls(controls, mappings) ==
    LET control_to_criteria == BuildIndex(<<>>, mappings)
    IN [k \in 1..Len(controls) |-> MergeOneControl(controls[k], control_to_criteria)]

Mapping(c, refs) == [criterion_id |-> c, mapped_controls |-> refs]

\* mappings keyed "1.1", "1.01" and "01.1", one with an untrimmed and
\* repeated reference, one with an empty reference
MappingPool ==
    { Mapping(<<"P">>, << <<"1", ".", "1">> >>),
      Mapping(<<"Q">>, << <<"1", ".", "0", "1">> >>),
      Mapping(<<"R">>, << <<" ", "1", ".", "1", " ">>, <<"1", ".", "1">> >>),
      Mapping(<<"Q">>, << <<"0", "1", ".", "1">>, <<"A">> >>),
      Mapping(<<"P">>, << <<"A">>, <<>> >>) }

CritControlIds == {<<"1", ".", "1">>, <<"1", ".", "0", "1">>, <<"A">>}

CritCriteria ==
    { [list |-> <<>>],
      [list |-> << <<"P">> >>],
      [list |-> << <<"Q">>, <<" ", "P">>, <<" ">> >>],
      [str |-> <<"Q">>] }

CritControlPool ==
    {[Control(<<"A">>, <<"x">>, i) EXCEPT !.criterion = c] :
        i \in CritControlIds, c \in CritCriteria}

CritInit ==
    /\ MergeIdle
    /\ SegIdle
    /\ ExIdle
    /\ ParseIdle
    /\ SrvIdle
    /\ ScanIdle
    /\ controls_in \in BoundedSeq(CritControlPool, MaxCritControls)
    /\ criteria_mappings \in BoundedSeq(MappingPool, MaxMappings)
    /\ final_controls = <<>>
    /\ crit_pc = "ready"

\* final_controls = merge_criteria_into_controls(merged_controls, criteria_mappings)
MergeCriteria ==
    /\ crit_pc = "ready"
    /\ final_controls' = merge_criteria_into_controls(controls_in, criteria_mappings)
    /\ crit_pc' = "done"
    /\ UNCHANGED <<controls_in, criteria_mappings, mergeVars, segVars, exVars, parseVars, srvVars, scanVars>>

CritNext == MergeCriteria

SpecCriteria == CritInit /\ [][CritNext]_vars

\* the references of the mappings in iteration order, trimmed, empty ones left out
RECURSIVE FlatRefs(_)
FlatRefs(mappings) ==
    IF mappings = <<>> THEN <<>>
    ELSE LET m == Head(mappings)
             NonEmpty(r) == Strip(r) # <<>>
             refs == SelectSeq(m.mapped_controls, NonEmpty)
         IN [k \in 1..Len(refs) |-> [ref |-> Strip(refs[k]), cid |-> m.criterion_id]]
                \o FlatRefs(Tail(mappings))

\* the criteria of the mappings that reference `ref`
RefCriteria(mappings, ref) ==
    {e.cid : e \in {x \in SeqToSet(FlatRefs(mappings)) : x.ref = ref}}

\* [major, minor] of a text of the shape digits.digits, else the text itself
MajorMinor(r) ==
    IF \E d \in 1..Len(r) :
          /\ r[d] = "."
          /\ IsDigit(SubSeq(r, 1, d - 1))
          /\ IsDigit(SubSeq(r, d + 1, Len(r)))
    THEN LET d == CHOOSE k \in 1..Len(r) :
                     /\ r[k] = "."
                     /\ IsDigit(SubSeq(r, 1, k - 1))
                     /\ IsDigit(SubSeq(r, k + 1, Len(r)))
         IN [major |-> StrToInt(SubSeq(r, 1, d - 1)),
             minor |-> StrToInt(SubSeq(r, d + 1, Len(r)))]
    ELSE [text |-> r]

\* equal after major.minor numeric normalization
SameRef(a, b) == MajorMinor(a) = MajorMinor(b)

\* the key whose criteria a control id receives: the id itself when it is
\* indexed, else the first indexed key equal to it after normalization
MatchedKeys(mappings, id) ==
    LET flat == FlatRefs(mappings)
    IN IF \E k \in 1..Len(flat) : flat[k].ref = id THEN {id}
       ELSE {flat[k].ref : k \in {j \in 1..Len(flat) :
                                    /\ SameRef(flat[j].ref, id)
                                    /\ \A i \in 1..(j - 1) : ~SameRef(flat[i].ref, id)}}

MappedSet(mappings, id) ==
    UNION {RefCriteria(mappings, r) : r \in MatchedKeys(mappings, id)}

RawCriteria(control) ==
    IF "str" \in DOMAIN control.criterion
    THEN {control.criterion.str}
    ELSE SeqToSet(control.criterion.list)

IsSortedStrict(list) ==
    \A k \in 1..(Len(list) - 1) : StrLess(list[k], list[k + 1])

CriteriaAre(k, own) ==
    LET res == final_controls[k].criterion.list
    IN /\ SeqToSet(res) = own \cup MappedSet(criteria_mappings, Strip(controls_in[k].control_id))
       /\ IsSortedStrict(res)
       /\ final_controls[k].control_id = controls_in[k].control_id

(***************************************************************************)
(* C6 as stated: the criteria after merge_criteria_into_controls are the   *)
(* sorted, duplicate-free union of the control's own non-empty             *)
(* extraction-time criteria and the criteria reverse-mapped to its id, so  *)
(* every extraction-time criterion is still present.                       *)
(***************************************************************************)
C6_UnionOfUntrimmed ==
    crit_pc = "done" =>
       /\ Len(final_controls) = Len(controls_in)
       /\ \A k \in 1..Len(controls_in) :
             CriteriaAre(k, RawCriteria(controls_in[k]) \ {<<>>})

(***************************************************************************)
(* C6, amended: the criteria after merge_criteria_into_controls are the    *)
(* sorted, duplicate-free union of the control's own extraction-time       *)
(* criteria, each trimmed of surrounding whitespace and left out if blank, *)
(* and the criteria reverse-mapped to its id; with no mapping for the      *)
(* control the result is its own trimmed criteria, sorted.                 *)
(***************************************************************************)
C6_CriteriaUnion ==
    crit_pc = "done" =>
       /\ Len(final_controls) = Len(controls_in)
       /\ \A k \in 1..Len(controls_in) :
             CriteriaAre(k, {Strip(c) : c \in RawCriteria(controls_in[k])} \ {<<>>})

\* own ["P"] plus a mapped "Q" gives ["P", "Q"]
C6_Witness ==
    /\ crit_pc = "done"
    /\ \E k \in 1..Len(controls_in) :
          /\ controls_in[k].criterion = [list |-> << <<"P">> >>]
          /\ MappedSet(criteria_mappings, controls_in[k].control_id) = {<<"Q">>}
          /\ final_controls[k].criterion = [list |-> << <<"P">>, <<"Q">> >>]

(***************************************************************************)
(* C7 as stated: a control receives the criteria of every reference key    *)
(* that equals its id after major.minor normalization, whatever else the   *)
(* reverse index holds.                                                    *)
(***************************************************************************)
C7_EveryNormalizedKey ==
    crit_pc = "done" =>
       \A k \in 1..Len(controls_in) :
          \A e \in SeqToSet(FlatRefs(criteria_mappings)) :
             SameRef(e.ref, Strip(controls_in[k].control_id))
                => e.cid \in SeqToSet(final_controls[k].criterion.list)

(***************************************************************************)
(* C7, amended: a control receives the criteria of a reference key equal   *)
(* to its id after major.minor normalization when that key is its id       *)
(* itself or, the id not being indexed, the first indexed key that is      *)
(* equal to it after normalization: id "1.01" obtains the criteria of a    *)
(* mapping keyed "1.1", and id "1.1" those of a mapping keyed "1.01".      *)
(***************************************************************************)
C7_NormalizedMatch ==
    crit_pc = "done" =>
       \A k \in 1..Len(controls_in) :
          LET id == Strip(controls_in[k].control_id)
              flat == FlatRefs(criteria_mappings)
              indexed == \E j \in 1..Len(flat) : flat[j].ref = id
          IN \A j \in 1..Len(flat) :
                ( /\ SameRef(flat[j].ref, id)
                  /\ \/ flat[j].ref = id
                     \/ /\ ~indexed
                        /\ \A i \in 1..(j - 1) :
                              SameRef(flat[i].ref, id) => flat[i].ref = flat[j].ref )
                => RefCriteria(criteria_mappings, flat[j].ref)
                      \subseteq SeqToSet(final_controls[k].criterion.list)

\* id "1.01" is not indexed, the only matching key is "1.1", and its
\* criterion arrives
C7_Witness ==
    /\ crit_pc = "done"
    /\ \E k \in 1..Len(controls_in) :
          /\ controls_in[k].control_id = <<"1", ".", "0", "1">>
          /\ controls_in[k].criterion = [list |-> <<>>]
          /\ {e.ref : e \in SeqToSet(FlatRefs(criteria_mappings))} = {<<"1", ".", "1">>}
          /\ <<"P">> \in SeqToSet(final_controls[k].criterion.list)

(***************************************************************************)
(* Page segmentation: detect_section_markers, analyze_text_structure,      *)
(* is_table_page and segment_content.  A page is read through what the     *)
(* code reads of it: whether its first 500 characters hold the contents    *)
(* heading, the number token captured by the first match of each of the    *)
(* six patterns (None: no match), whether the sixth pattern's match has    *)
(* fewer than 200 characters before it, and the four structural signals.   *)
(***************************************************************************)
None == <<>>

roman_to_int ==
    (<<"I">> :> 1) @@ (<<"I","I">> :> 2) @@ (<<"I","I","I">> :> 3)
    @@ (<<"I","V">> :> 4) @@ (<<"V">> :> 5) @@ (<<"V","I">> :> 6)
    @@ (<<"V","I","I">> :> 7) @@ (<<"V","I","I","I">> :> 8)
    @@ (<<"I","X">> :> 9) @@ (<<"X">> :> 10)

word_to_int ==
    (<<"O","N","E">> :> 1) @@ (<<"T","W","O">> :> 2)
    @@ (<<"T","H","R","E","E">> :> 3) @@ (<<"F","O","U","R">> :> 4)
    @@ (<<"F","I","V","E">> :> 5) @@ (<<"S","I","X">> :> 6)
    @@ (<<"S","E","V","E","N">> :> 7) @@ (<<"E","I","G","H","T">> :> 8)
    @@ (<<"N","I","N","E">> :> 9) @@ (<<"T","E","N">> :> 10)

parse_section_number(section_str) ==
    LET str == Strip(Upper(section_str))
    IN IF str \in DOMAIN roman_to_int THEN roman_to_int[str]
       ELSE IF str \in DOMAIN word_to_int THEN word_to_int[str]
       ELSE IF IsDigit(str) THEN StrToInt(str)
       ELSE 0

\* tokens drawn for the patterns with "SECTION" (case-insensitive; roman
\* numerals, digits or words): a lower-case numeral, digits, an unparsable
\* numeral for the first two patterns, a word for the next two
HeaderTokens == {<<"i","i">>, <<"3">>, <<"X","X">>}

DashTokens == {<<"f","o","u","r">>, <<"X","X">>}

\* tokens the bare-numeral patterns ([IVX]+, case-sensitive) can capture
RomanTokens == {<<"I">>, <<"X","X">>}

\* a contents page (nothing else of it is read), or a page with its matches
PageMarkers ==
    [toc : {TRUE},
     standalone : {None}, dash_after : {None}, dash_before : {None},
     inline : {None}, roman_standalone : {None}, roman_title : {None},
     roman_title_near_top : {FALSE}]
    \cup
    [toc : {FALSE},
     standalone : HeaderTokens \cup {None},
     dash_after : HeaderTokens \cup {None},
     dash_before : DashTokens \cup {None},
     inline : DashTokens \cup {None},
     roman_standalone : RomanTokens \cup {None},
     roman_title : RomanTokens \cup {None},
     roman_title_near_top : BOOLEAN]

\* `if match: detected_section = parse_section_number(match.group(1))`,
\* tried only while detected_section is still 0
TryPattern(detected_section, token) ==
    IF detected_section = 0 /\ token # None
    THEN parse_section_number(token) ELSE detected_section

\* the six patterns in their order (app.py:300-364)
DetectedSection(page) ==
    LET d1 == TryPattern(0, page.standalone)
        d2 == TryPattern(d1, page.dash_after)
        d3 == TryPattern(d2, page.dash_before)
        d4 == TryPattern(d3, page.inline)
        d5 == TryPattern(d4, page.roman_standalone)
        d6 == TryPattern(d5, IF page.roman_title_near_top
                             THEN page.roman_title ELSE None)
    IN IF page.toc THEN 0 ELSE d6

\* a slip that would let a page without a marker reset the section
NextSectionResetting(current, detected_section) == detected_section

\* app.py:367-368
NextSection(current, detected_section) ==
    IF detected_section > 0 THEN detected_section ELSE current

\* the four signals of analyze_text_structure as the counts it compares
PageStructure ==
    [result_density : {2, 3},
     criteria_matches : {1, 2},
     continued : BOOLEAN,
     lines : {0, 10},
     multi_column_lines : {0, 3, 4}]

\* analysis['score_adjustments'] (app.py:397-424); m / n > 0.3 as 10 m > 3 n
score_adjustments(st) ==
    (IF st.result_density >= 3 THEN 2 ELSE 0)
    + (IF st.criteria_matches >= 2 THEN 1 ELSE 0)
    + (IF st.continued THEN 1 ELSE 0)
    + (IF st.lines # 0 /\ 10 * st.multi_column_lines > 3 * st.lines THEN 1 ELSE 0)

\* section_info.get(page_idx, 0)
SectionOf(info, page_idx) == IF page_idx \in DOMAIN info THEN info[page_idx] ELSE 0

\* a variant that sends a page of section 0 to the structural analysis
is_table_page_scoring_undetermined(st, page_idx, info) ==
    LET section_num == SectionOf(info, page_idx)
    IN IF section_num \in {1, 2}
       THEN [is_table |-> FALSE, score |-> -10, reasons |-> "section_narrative",
             forced_narrative |-> TRUE, forced_table |-> FALSE]
       ELSE IF section_num >= 3
       THEN [is_table |-> TRUE, score |-> 10, reasons |-> "section_table",
             forced_narrative |-> FALSE, forced_table |-> TRUE]
       ELSE [is_table |-> score_adjustments(st) >= 2,
             score |-> score_adjustments(st), reasons |-> "unknown_section",
             forced_narrative |-> FALSE, forced_table |-> FALSE]

is_table_page(st, page_idx, info) ==
    LET section_num == SectionOf(info, page_idx)
    IN IF section_num \in {0, 1, 2}
       THEN [is_table |-> FALSE, score |-> -10,
             reasons |-> IF section_num = 0 THEN "before_section_iii"
                                            ELSE "section_narrative",
             forced_narrative |-> TRUE, forced_table |-> FALSE]
       ELSE IF section_num >= 3
       THEN [is_table |-> TRUE, score |-> 10, reasons |-> "section_table",
             forced_narrative |-> FALSE, forced_table |-> TRUE]
       ELSE [is_table |-> score_adjustments(st) >= 2,
             score |-> score_adjustments(st), reasons |-> "unknown_section",
             forced_narrative |-> FALSE, forced_table |-> FALSE]

SegInit ==
    /\ MergeIdle
    /\ CritIdle
    /\ ExIdle
    /\ ParseIdle
    /\ SrvIdle
    /\ ScanIdle
    /\ seg_pc = "detect"
    /\ npages \in 1..MaxPages
    /\ page_i = 0
    /\ current_section = 0
    /\ section_info = <<>>
    /\ detected = <<>>
    /\ classifications = <<>>
    /\ struct_table = <<>>
    /\ table_parts = <<>>
    /\ narrative_parts = <<>>

\* one iteration of the loop of detect_section_markers (app.py:292-370);
\* after the last page segment_content goes on to classify (app.py:509-514)
DetectPage ==
    /\ seg_pc = "detect"
    /\ \E page \in PageMarkers :
          LET detected_section == DetectedSection(page)
              section == IF page.toc THEN current_section
                         ELSE NextSection(current_section, detected_section)
          IN /\ current_section' = section
             /\ section_info' = section_info @@ (page_i :> section)
             /\ detected' = Append(detected, detected_section)
    /\ page_i' = IF page_i + 1 = npages THEN 0 ELSE page_i + 1
    /\ seg_pc' = IF page_i + 1 = npages THEN "classify" ELSE "detect"
    /\ UNCHANGED <<npages, classifications, struct_table, table_parts,
                   narrative_parts, mergeVars, critVars, exVars, parseVars, srvVars, scanVars>>

\* one iteration of the classification loop (app.py:514-523)
ClassifyPage ==
    /\ seg_pc = "classify"
    /\ \E st \in PageStructure :
          LET analysis == is_table_page(st, page_i, section_info)
          IN /\ classifications' = Append(classifications,
                    [page |-> page_i + 1,
                     is_table |-> analysis.is_table,
                     section |-> SectionOf(section_info, page_i),
                     forced_narrative |-> analysis.forced_narrative,
                     forced_table |-> analysis.forced_table,
                     reasons |-> analysis.reasons])
             /\ struct_table' = Append(struct_table, score_adjustments(st) >= 2)
    /\ page_i' = IF page_i + 1 = npages THEN 0 ELSE page_i + 1
    /\ seg_pc' = IF page_i + 1 = npages THEN "build" ELSE "classify"
    /\ UNCHANGED <<npages, current_section, section_info, detected, table_parts,
                   narrative_parts, mergeVars, critVars, exVars, parseVars, srvVars, scanVars>>

\* a label that numbers the pages from 0, as the loop index does
LabeledFromZero(k) == [marker |-> k - 1, text_of |-> k - 1]

\* the labeled page f"=== PAGE {page} ===\n{pages[i]}": its marker number and
\* the index of the page whose text follows
Labeled(k) == [marker |-> classifications[k].page, text_of |-> k - 1]

\* the two streams (app.py:526-537)
BuildSegments ==
    /\ seg_pc = "build"
    /\ LET IsTable(k) == classifications[k].is_table
           IsNarrative(k) == ~classifications[k].is_table
           order == [k \in 1..Len(classifications) |-> k]
           t == SelectSeq(order, IsTable)
           n == SelectSeq(order, IsNarrative)
       IN /\ table_parts' = [k \in 1..Len(t) |-> Labeled(t[k])]
          /\ narrative_parts' = [k \in 1..Len(n) |-> Labeled(n[k])]
    /\ seg_pc' = "done"
    /\ UNCHANGED <<npages, page_i, current_section, section_info, detected,
                   classifications, struct_table, mergeVars, critVars, exVars, parseVars, srvVars, scanVars>>

SegNext == DetectPage \/ ClassifyPage \/ BuildSegments

SpecSegment == SegInit /\ [][SegNext]_vars

\* the section of page index k by forward fill: the number of the last
\* marker detected on pages 0..k, 0 when there is none
ForwardFilled(k) ==
    LET marks == {j \in 1..(k + 1) : detected[j] > 0}
    IN IF marks = {} THEN 0
       ELSE detected[CHOOSE j \in marks : \A m \in marks : m <= j]

(***************************************************************************)
(* C1: segment_content labels a page table if and only if its              *)
(* forward-filled section number is >= 3 and narrative if it is 0, 1 or 2, *)
(* whatever its structural score; each page goes to the stream of its      *)
(* label.                                                                  *)
(***************************************************************************)
C1_SectionDecidesLabel ==
    /\ \A k \in 1..Len(classifications) :
          /\ classifications[k].is_table <=> ForwardFilled(k - 1) >= 3
          /\ ~classifications[k].is_table <=> ForwardFilled(k - 1) \in {0, 1, 2}
    /\ seg_pc = "done" =>
          /\ {table_parts[j].marker : j \in 1..Len(table_parts)}
                = {k \in 1..npages : ForwardFilled(k - 1) >= 3}
          /\ {narrative_parts[j].marker : j \in 1..Len(narrative_parts)}
                = {k \in 1..npages : ForwardFilled(k - 1) < 3}

\* an unmarked first page whose structure scores like a table is narrative;
\* the second page carries a section-3 header; the unmarked third page,
\* whose structure does not score like a table, is table
C1_Witness ==
    /\ seg_pc = "done"
    /\ npages = 3
    /\ detected = <<0, 3, 0>>
    /\ struct_table = <<TRUE, FALSE, FALSE>>
    /\ [k \in 1..3 |-> classifications[k].is_table] = <<FALSE, TRUE, TRUE>>
    /\ [k \in 1..Len(table_parts) |-> table_parts[k].marker] = <<2, 3>>

(***************************************************************************)
(* C2: in detect_section_markers the running section is 0 until the first  *)
(* page with a parsable marker, a page without a marker records the value  *)
(* of the page before it, a page with a marker records the marker's        *)
(* number, and every page index gets an integer >= 0.                      *)
(***************************************************************************)
C2_ForwardFill ==
    /\ DOMAIN section_info = 0..(Len(detected) - 1)
    /\ \A i \in DOMAIN section_info :
          /\ section_info[i] \in Nat
          /\ detected[i + 1] = 0 =>
                section_info[i] = (IF i = 0 THEN 0 ELSE section_info[i - 1])
          /\ detected[i + 1] > 0 => section_info[i] = detected[i + 1]
    /\ current_section
          = (IF Len(detected) = 0 THEN 0 ELSE section_info[Len(detected) - 1])
    /\ seg_pc \in {"classify", "build", "done"} => Len(detected) = npages

\* a marker sets 3, the next page keeps it, a later marker sets the lower 2
C2_Witness ==
    /\ seg_pc = "classify"
    /\ detected = <<3, 0, 2>>
    /\ section_info = (0 :> 3) @@ (1 :> 3) @@ (2 :> 2)

(***************************************************************************)
(* The extraction request: extract_controls_cursor with                    *)
(* invoke_bedrock_with_retry.  Every collaborator attempt is one step; a   *)
(* step runs the handler's code up to its next collaborator call.          *)
(***************************************************************************)
Phases ==
    <<"auditor opinion", "controls", "exceptions", "subservice", "user entity",
      "criteria">>

PhaseIndex(ph) == CHOOSE k \in 1..Len(Phases) : Phases[k] = ph

PaginatedPhases == {"controls", "subservice", "user entity"}

\* what one attempt can meet: the transport raising, a response envelope
\* without usable text, text that is no JSON, or a JSON payload
RawFailures ==
    {"ReadTimeoutError", "EndpointConnectionError", "BotoCoreError", "ClientError",
     "empty_body", "undecodable_body", "content_null", "no_text", "not_json"}

Raise(exc) == [raised |-> TRUE, exc |-> exc]

Return(value) == [raised |-> FALSE, value |-> value]

\* invoke_bedrock (app.py:185-209)
invoke_bedrock(raw) ==
    CASE raw.kind \in {"ReadTimeoutError", "EndpointConnectionError",
                       "BotoCoreError", "ClientError"} -> Raise(raw.kind)
      [] raw.kind = "empty_body" -> Raise("RuntimeError")
      [] raw.kind = "undecodable_body" -> Raise("RuntimeError")
      [] raw.kind = "content_null" -> Raise("TypeError")
      [] raw.kind = "no_text" -> Raise("RuntimeError")
      [] raw.kind = "not_json" -> Raise("JSONDecodeError")
      [] raw.kind = "json" -> Return(raw.payload)

\* the except clause of invoke_bedrock_with_retry (app.py:217)
CaughtExceptions ==
    {"ReadTimeoutError", "EndpointConnectionError", "BotoCoreError",
     "RuntimeError", "JSONDecodeError"}

RECURSIVE Pow2(_)
Pow2(n) == IF n = 0 THEN 1 ELSE 2 * Pow2(n - 1)

\* a wait that would not grow
backoff_constant(attempt_index) == 1

\* time.sleep(2 ** attempt), attempt being the loop index from 0
backoff(attempt_index) == Pow2(attempt_index)

\* `x or y` on texts
OrElse(x, y) == IF x # "" THEN x ELSE y

\* a slip that would never advance the cursor
NextCursorStuck(phase, meta) == ""

\* the cursor taken from a response's meta (app.py:1203, 1248, 1281)
NextCursor(phase, meta) ==
    CASE phase = "controls" -> OrElse(meta.last_control_id, OrElse(meta.last_index, ""))
      [] phase = "subservice" -> OrElse(meta.last_control_id, "")
      [] phase = "user entity" -> OrElse(meta.last_description, "")

\* a loop test that would go on when the flag is not true
HasMoreInverted(meta) == meta.has_more # "true"

\* bool(meta.get("has_more")) for a JSON true, false or missing flag
HasMore(meta) == meta.has_more = "true"

\* a copy-paste slip that would name the first phase in every error
PhaseFailureNamingOpinion(phase, e) ==
    [status |-> 500, ok |-> FALSE, error |-> [phase |-> "auditor opinion", e |-> e]]

\* jsonify({"ok": False, "error": f"Bedrock error ({phase}): {e}"}), 500
PhaseFailure(phase, e) ==
    [status |-> 500, ok |-> FALSE, error |-> [phase |-> phase, e |-> e]]

\* raise RuntimeError(f"Bedrock failed after {MAX_RETRIES} attempts: {last_err}")
Exhausted(last_err) ==
    [exc |-> "RuntimeError", attempts |-> MAX_RETRIES, last_err |-> last_err]

\* an exception that passes through the wrapper as it was raised
Uncaught(exc) == [exc |-> exc]

HasMoreValues == {"true", "false", "absent"}

OpinionPayloads == {[auditor_opinion |-> "unqualified"]}

ExControlBatches ==
    { <<Control(<<"A">>, <<"x">>, <<>>)>>,
      <<Control(<<"B">>, <<"x">>, <<" ">>)>>,
      <<Control(<<"a", " ">>, <<" ", "X">>, <<"7">>)>> }

ControlsPayloads ==
    {[extraction |-> [controls |-> b], meta |-> Meta(id, idx, "", more)] :
        b \in ExControlBatches, id \in {"", "7"}, idx \in {"", "5"},
        more \in HasMoreValues}

ExceptionsPayloads == {[exceptions |-> <<"e1">>]}

SubservicePayloads ==
    {[subservice_controls |-> b, meta |-> Meta(id, "", "", more)] :
        b \in {<<"s1">>}, id \in {"", "Org|1"}, more \in HasMoreValues}

UserEntityPayloads ==
    {[user_entity_controls |-> b, meta |-> Meta("", "", d, more)] :
        b \in {<<"u1">>}, d \in {"", "d1"}, more \in HasMoreValues}

CriteriaPayloads ==
    {[criteria_mappings |-> m] :
        m \in {<<>>, <<Mapping(<<"Q">>, << <<"C", "-", "0", "0", "1">> >>)>>}}

ExInit ==
    /\ MergeIdle
    /\ CritIdle
    /\ SegIdle
    /\ ParseIdle
    /\ SrvIdle
    /\ ScanIdle
    /\ ex_pc = "auditor opinion"
    /\ attempt = 0
    /\ slept = 0
    /\ last_outcome = "none"
    /\ cursor = ""
    /\ subservice_cursor = ""
    /\ user_entity_cursor = ""
    /\ subservice_passes = 0
    /\ user_entity_passes = 0
    /\ merged_subservice = <<>>
    /\ merged_user_entity = <<>>
    /\ auditor_opinion = ""
    /\ exceptions = <<>>
    /\ sent_cursor = ""
    /\ last_resp = NoMeta
    /\ started = {}
    /\ rendered = FALSE
    /\ docx_raised = "no"
    /\ response = NoResponse

Running == response = NoResponse

\* the successful attempt of invoke_bedrock_with_retry returns at once
\* (app.py:216); `cur` is the cursor its instruction carried
Returned(cur, meta) ==
    /\ attempt' = 0
    /\ slept' = 0
    /\ last_outcome' = "ok"
    /\ sent_cursor' = cur
    /\ last_resp' = meta
    /\ started' = started \cup {ex_pc}

\* phase 1 (app.py:1173-1190)
OpinionReturns ==
    /\ Running
    /\ ex_pc = "auditor opinion"
    /\ \E raw \in {[kind |-> "json", payload |-> p] : p \in OpinionPayloads} :
          LET opinion_result == invoke_bedrock(raw).value
          IN auditor_opinion' = opinion_result.auditor_opinion
    /\ Returned("", NoMeta)
    /\ ex_pc' = "controls"
    /\ UNCHANGED <<cursor, subservice_cursor, user_entity_cursor, subservice_passes,
                   user_entity_passes, merged_subservice, merged_user_entity,
                   exceptions, rendered, docx_raised, response, mergeVars, critVars, segVars, parseVars, srvVars, scanVars>>

\* one pass of phase 2 (app.py:1192-1211)
ControlsReturn ==
    /\ Running
    /\ ex_pc = "controls"
    /\ \E raw \in {[kind |-> "json", payload |-> p] : p \in ControlsPayloads} :
          LET result == invoke_bedrock(raw).value
              meta == result.meta
          IN /\ HasMore(meta) => passes + 1 < MaxPasses
             /\ merged_controls' =
                   merge_controls(merged_controls, result.extraction.controls)
             /\ cursor' = NextCursor("controls", meta)
             /\ Returned(cursor, meta)
             /\ ex_pc' = IF HasMore(meta) THEN "controls" ELSE "exceptions"
    /\ passes' = passes + 1
    /\ UNCHANGED <<subservice_cursor, user_entity_cursor, subservice_passes,
                   user_entity_passes, merged_subservice, merged_user_entity,
                   auditor_opinion, exceptions, rendered, docx_raised, response,
                   skipped, firstSeenId, critVars, segVars, parseVars, srvVars, scanVars>>

\* phase 3 (app.py:1220-1235)
ExceptionsReturn ==
    /\ Running
    /\ ex_pc = "exceptions"
    /\ \E raw \in {[kind |-> "json", payload |-> p] : p \in ExceptionsPayloads} :
          LET exceptions_result == invoke_bedrock(raw).value
          IN exceptions' = exceptions_result.exceptions
    /\ Returned("", NoMeta)
    /\ ex_pc' = "subservice"
    /\ UNCHANGED <<cursor, subservice_cursor, user_entity_cursor, subservice_passes,
                   user_entity_passes, merged_subservice, merged_user_entity,
                   auditor_opinion, rendered, docx_raised, response, mergeVars, critVars, segVars, parseVars, srvVars, scanVars>>

\* one pass of phase 4 (app.py:1237-1256)
SubserviceReturns ==
    /\ Running
    /\ ex_pc = "subservice"
    /\ \E raw \in {[kind |-> "json", payload |-> p] : p \in SubservicePayloads} :
          LET subservice_result == invoke_bedrock(raw).value
              meta == subservice_result.meta
          IN /\ HasMore(meta) => subservice_passes + 1 < MaxPasses
             /\ merged_subservice' =
                   merged_subservice \o subservice_result.subservice_controls
             /\ subservice_cursor' = NextCursor("subservice", meta)
             /\ Returned(subservice_cursor, meta)
             /\ ex_pc' = IF HasMore(meta) THEN "subservice" ELSE "user entity"
    /\ subservice_passes' = subservice_passes + 1
    /\ UNCHANGED <<cursor, user_entity_cursor, user_entity_passes,
                   merged_user_entity, auditor_opinion, exceptions, rendered, docx_raised,
                   response, mergeVars, critVars, segVars, parseVars, srvVars, scanVars>>

\* one pass of phase 5 (app.py:1270-1289)
UserEntityReturns ==
    /\ Running
    /\ ex_pc = "user entity"
    /\ \E raw \in {[kind |-> "json", payload |-> p] : p \in UserEntityPayloads} :
          LET user_entity_result == invoke_bedrock(raw).value
              meta == user_entity_result.meta
          IN /\ HasMore(meta) => user_entity_passes + 1 < MaxPasses
             /\ merged_user_entity' =
                   merged_user_entity \o user_entity_result.user_entity_controls
             /\ user_entity_cursor' = NextCursor("user entity", meta)
             /\ Returned(user_entity_cursor, meta)
             /\ ex_pc' = IF HasMore(meta) THEN "user entity" ELSE "criteria"
    /\ user_entity_passes' = user_entity_passes + 1
    /\ UNCHANGED <<cursor, subservice_cursor, subservice_passes, merged_subservice,
                   auditor_opinion, exceptions, rendered, docx_raised, response,
                   mergeVars, critVars, segVars, parseVars, srvVars, scanVars>>

\* phase 6 and the merge of phase 7, which mutates the controls in place
\* (app.py:1299-1311)
CriteriaReturn ==
    /\ Running
    /\ ex_pc = "criteria"
    /\ \E raw \in {[kind |-> "json", payload |-> p] : p \in CriteriaPayloads} :
          LET criteria_result == invoke_bedrock(raw).value
              merged == merge_criteria_into_controls(merged_controls,
                                                     criteria_result.criteria_mappings)
          IN /\ criteria_mappings' = criteria_result.criteria_mappings
             /\ controls_in' = merged_controls
             /\ final_controls' = merged
             /\ merged_controls' = merged
    /\ crit_pc' = "done"
    /\ Returned("", NoMeta)
    /\ ex_pc' = "render"
    /\ UNCHANGED <<cursor, subservice_cursor, user_entity_cursor, subservice_passes,
                   user_entity_passes, merged_subservice, merged_user_entity,
                   auditor_opinion, exceptions, rendered, docx_raised, response,
                   skipped, passes, firstSeenId, segVars, parseVars, srvVars, scanVars>>

\* a failed attempt in any phase: retried after a wait while attempts remain
\* (app.py:214-220), raised as RuntimeError once they are used up
\* (app.py:221); an exception the wrapper does not catch leaves it at once.
\* The handler answers either with the phase's error (app.py:1175-1176 etc.)
AttemptFails ==
    /\ Running
    /\ ex_pc \in SeqToSet(Phases)
    /\ \E kind \in RawFailures :
          LET e == invoke_bedrock([kind |-> kind]).exc
          IN IF e \in CaughtExceptions
             THEN /\ last_outcome' = "caught"
                  /\ slept' = backoff(attempt)
                  /\ attempt' = attempt + 1
                  /\ response' = IF attempt + 1 < MAX_RETRIES THEN NoResponse
                                 ELSE PhaseFailure(ex_pc, Exhausted(e))
             ELSE /\ last_outcome' = "uncaught"
                  /\ slept' = 0
                  /\ attempt' = attempt
                  /\ response' = PhaseFailure(ex_pc, Uncaught(e))
    /\ sent_cursor' = CASE ex_pc = "controls" -> cursor
                        [] ex_pc = "subservice" -> subservice_cursor
                        [] ex_pc = "user entity" -> user_entity_cursor
                        [] OTHER -> ""
    /\ started' = started \cup {ex_pc}
    /\ UNCHANGED <<ex_pc, cursor, subservice_cursor, user_entity_cursor,
                   subservice_passes, user_entity_passes, merged_subservice,
                   merged_user_entity, auditor_opinion, exceptions, last_resp,
                   rendered, docx_raised, mergeVars, critVars, segVars, parseVars, srvVars, scanVars>>

\* the "result" of the response (app.py:1336-1355)
ExtractionResult ==
    [extraction |-> [auditor_opinion |-> auditor_opinion,
                     vendor_controls |-> final_controls,
                     exceptions |-> exceptions,
                     subservice_controls |-> merged_subservice,
                     user_entity_controls |-> merged_user_entity],
     criteria_mappings |-> criteria_mappings,
     meta |-> [vendor_passes |-> passes,
               subservice_passes |-> subservice_passes,
               user_entity_passes |-> user_entity_passes]]

\* jsonify({"ok": True, "result": ..., "report_id": rid if docx_ok else None})
SuccessResponse(result, docx_ok) ==
    [status |-> 200, ok |-> TRUE, result |-> result,
     report_id |-> IF docx_ok THEN "rid" ELSE ""]

\* a handler that would let the rendering failure end the request
AfterRenderFailing(raised, result, docx_ok) ==
    IF raised # "no" THEN PhaseFailure("render", Uncaught("Exception"))
    ELSE SuccessResponse(result, docx_ok)

\* the except clause around build_report_docx only logs (app.py:1328-1329)
AfterRender(raised, result, docx_ok) == SuccessResponse(result, docx_ok)

\* phase 8 and the response (app.py:1316-1359).  build_report_docx may raise
\* while it builds the document, before doc.save writes the file
\* (app.py:713-928), or inside doc.save, where the file may already exist;
\* the report id is given if the file exists afterwards (app.py:1331).
Render ==
    /\ Running
    /\ ex_pc = "render"
    /\ \E raised \in {"no", "building", "saving"}, docx_ok \in BOOLEAN :
          /\ raised = "no" => docx_ok
          /\ raised = "building" => ~docx_ok
          /\ docx_raised' = raised
          /\ response' = AfterRender(raised, ExtractionResult, docx_ok)
    /\ rendered' = TRUE
    /\ UNCHANGED <<ex_pc, attempt, slept, last_outcome, cursor, subservice_cursor,
                   user_entity_cursor, subservice_passes, user_entity_passes,
                   merged_subservice, merged_user_entity, auditor_opinion,
                   exceptions, sent_cursor, last_resp, started,
                   mergeVars, critVars, segVars, parseVars, srvVars, scanVars>>

ExNext ==
    \/ OpinionReturns
    \/ ControlsReturn
    \/ ExceptionsReturn
    \/ SubserviceReturns
    \/ UserEntityReturns
    \/ CriteriaReturn
    \/ AttemptFails
    \/ Render

SpecExtract == ExInit /\ [][ExNext]_vars

(***************************************************************************)
(* Properties of the extraction request                                    *)
(***************************************************************************)
Answered == response.status = 200

Failed == response.status = 500

\* C5: in every successful extraction response every vendor control of the
\* final set has a non-empty control id, whatever ids the collaborator gave
\* and however many passes were made.
C5_EveryControlHasId ==
    Answered =>
        \A k \in 1..Len(response.result.extraction.vendor_controls) :
            Strip(response.result.extraction.vendor_controls[k].control_id) # <<>>

\* a successful response after two passes whose controls both came without
\* an id and now carry synthesized ones
C5_Witness ==
    /\ Answered
    /\ response.result.meta.vendor_passes = 2
    /\ Len(response.result.extraction.vendor_controls) = 2
    /\ \A k \in 1..2 :
          IsSynthId(response.result.extraction.vendor_controls[k].control_id)

\* attempts made so far by the current logical call
AttemptsMade == IF last_outcome = "uncaught" THEN attempt + 1 ELSE attempt

\* C8: a logical collaborator call fails only after MAX_RETRIES failed
\* attempts, since every failed attempt is followed by another one while
\* attempts remain.
C8_FailureOnlyAfterMaxRetries == Failed => AttemptsMade = MAX_RETRIES

PhasesAfter(ph) == {Phases[k] : k \in (PhaseIndex(ph) + 1)..Len(Phases)}

Succeeded(ph) ==
    CASE ph = "auditor opinion" -> auditor_opinion # ""
      [] ph = "controls" -> passes > 0 /\ ex_pc # "controls"
      [] ph = "exceptions" -> exceptions # <<>>
      [] ph = "subservice" -> subservice_passes > 0 /\ ex_pc # "subservice"
      [] ph = "user entity" -> user_entity_passes > 0 /\ ex_pc # "user entity"
      [] ph = "criteria" -> crit_pc = "done"

\* C9: when a phase's call has used up its retries the request ends with an
\* error response naming that phase and carrying no result, no later phase is
\* called, nothing is rendered and nothing happens after the response; a
\* response with results is given only when every phase succeeded.
C9_ExhaustionAborts ==
    [][/\ Running
       /\ attempt' = MAX_RETRIES =>
             /\ response'.status = 500
             /\ response'.ok = FALSE
             /\ response'.error.phase = ex_pc
             /\ response'.error.e.exc = "RuntimeError"
             /\ DOMAIN response' = {"status", "ok", "error"}
             /\ started' \cap PhasesAfter(ex_pc) = {}
             /\ ex_pc' = ex_pc
             /\ ~rendered'
       /\ "result" \in DOMAIN response' =>
             /\ response'.status = 200
             /\ \A ph \in SeqToSet(Phases) : Succeeded(ph)']_vars

\* the subservice phase gives up after two passes of vendor controls were
\* already collected
C9_Witness ==
    /\ attempt = MAX_RETRIES
    /\ ex_pc = "subservice"
    /\ Failed
    /\ passes = 2
    /\ merged_controls # <<>>

PassesOf(ph) ==
    CASE ph = "controls" -> passes
      [] ph = "subservice" -> subservice_passes
      [] ph = "user entity" -> user_entity_passes

\* the cursor a response reports: the controls phase reads the last control
\* id and falls back on the last index
ReportedCursor(ph, meta) ==
    CASE ph = "controls" ->
            IF meta.last_control_id # "" THEN meta.last_control_id ELSE meta.last_index
      [] ph = "subservice" -> meta.last_control_id
      [] ph = "user entity" -> meta.last_description

ControlsReturnBeyondBound ==
    /\ Running
    /\ ex_pc = "controls"
    /\ passes + 1 >= MaxPasses
    /\ \E raw \in {[kind |-> "json", payload |-> p] : p \in ControlsPayloads} :
          LET result == invoke_bedrock(raw).value
              meta == result.meta
          IN /\ HasMore(meta)
             /\ merged_controls' =
                   merge_controls(merged_controls, result.extraction.controls)
             /\ cursor' = NextCursor("controls", meta)
             /\ Returned(cursor, meta)
    /\ ex_pc' = "controls"
    /\ UNCHANGED <<subservice_cursor, user_entity_cursor, subservice_passes,
                   user_entity_passes, merged_subservice, merged_user_entity,
                   auditor_opinion, exceptions, rendered, docx_raised, response,
                   skipped, passes, firstSeenId, critVars, segVars, parseVars, srvVars, scanVars>>

ExLiveNext ==
    \/ ExNext
    \/ ControlsReturnBeyondBound

\* every collaborator call returns or fails, and the handler runs on
SpecExtractLive == ExInit /\ [][ExLiveNext]_vars /\ WF_vars(ExLiveNext)

\* C11: a started extraction request eventually ends in completion or in a
\* phase-level failure, whatever the collaborator answers, as long as each
\* call returns or fails.
C11_EventuallyEnds == <>(Answered \/ Failed)

\* the phase's schema asks for a continuation flag in the meta of every
\* paginated response
FlagPresent(meta) == meta.has_more \in {"true", "false"}

\* C12: a well-formed JSON response that does not match the phase's schema
\* (here: a meta without continuation flag) is never accepted as the result
\* of a pass; it counts as a failed attempt.
C12_MismatchNeverAccepted ==
    [][\A ph \in PaginatedPhases :
          (ex_pc = ph /\ PassesOf(ph)' # PassesOf(ph)) => FlagPresent(last_resp')]_vars

\* C20 as stated: when all phases succeeded and rendering raises, the
\* response is successful, carries the full extraction result and has no
\* report id.
C20_NoReportIdOnRaise ==
    (rendered /\ docx_raised # "no") =>
        /\ Answered
        /\ response.result = ExtractionResult
        /\ response.report_id = ""

\* C20, amended: when all phases succeeded and rendering raises, the
\* response is successful and carries the full extraction result; it has no
\* report id when rendering raised before the report file was written.
C20_RenderFailureSwallowed ==
    (rendered /\ docx_raised # "no") =>
        /\ Answered
        /\ response.ok
        /\ response.result = ExtractionResult
        /\ \A ph \in SeqToSet(Phases) : Succeeded(ph)
        /\ docx_raised = "building" => response.report_id = ""

\* rendering raised while building the document after two passes of vendor
\* controls; the controls are in the response
C20_Witness ==
    /\ rendered
    /\ docx_raised = "building"
    /\ Answered
    /\ Len(response.result.extraction.vendor_controls) = 2
    /\ response.report_id = ""

(***************************************************************************)
(* Further properties of the merge_controls passes                         *)
(***************************************************************************)
\* no control of the accumulated list was ever submitted with an id
AllIdLess ==
    \A k \in 1..Len(merged_controls) :
        firstSeenId[_control_key(merged_controls[k])] = <<>>

\* C16: the k-th id-less control of the accumulated list carries the k-th
\* synthesized id, however the controls were split into passes (stated for
\* the lists none of whose controls ever came with an id, where the k-th
\* id-less control is the k-th control).
C16_SequentialIds ==
    AllIdLess =>
        \A k \in 1..Len(merged_controls) :
            merged_controls[k].control_id = SynthId(k)

\* C17: merging an accumulated list into itself gives the same list: no
\* entry is added, none moves and no id changes.
C17_Idempotent == merge_controls(merged_controls, merged_controls) = merged_controls

\* a list of three controls, one of which got a synthesized id
C17_Witness ==
    /\ Len(merged_controls) = 3
    /\ \E k \in 1..3 : IsSynthId(merged_controls[k].control_id)
    /\ \E k \in 1..3 : merged_controls[k].control_id = <<"7">>

(***************************************************************************)
(* _parse_model_json: recovery of the JSON payload from the model's text.  *)
(* json.loads is computed for a small JSON: the number 1, the empty        *)
(* object and objects with the one member "k".                             *)
(***************************************************************************)
JFail == [ok |-> FALSE, value |-> NoValue, rest |-> <<>>]

JOk(value, rest) == [ok |-> TRUE, value |-> value, rest |-> rest]

StartsWith(t, prefix) ==
    Len(t) >= Len(prefix) /\ SubSeq(t, 1, Len(prefix)) = prefix

EndsWith(t, suffix) ==
    Len(t) >= Len(suffix) /\ SubSeq(t, Len(t) - Len(suffix) + 1, Len(t)) = suffix

Drop(t, n) == SubSeq(t, n + 1, Len(t))

\* the value at the start of t, and what follows it
RECURSIVE ParseValue(_)
ParseValue(t) ==
    IF t = <<>> THEN JFail
    ELSE IF Head(t) = "1" THEN JOk(JValue("num", <<>>), Tail(t))
    ELSE IF Head(t) # "{" THEN JFail
    ELSE LET a == LStrip(Tail(t))
         IN IF StartsWith(a, <<"}">>) THEN JOk(JValue("obj", <<>>), Tail(a))
            ELSE IF ~StartsWith(a, <<"\"", "k", "\"">>) THEN JFail
            ELSE LET b == LStrip(Drop(a, 3))
                 IN IF ~StartsWith(b, <<":">>) THEN JFail
                    ELSE LET v == ParseValue(LStrip(Tail(b)))
                             c == LStrip(v.rest)
                         IN IF v.ok /\ StartsWith(c, <<"}">>)
                            THEN JOk(JValue("obj", <<v.value>>), Tail(c))
                            ELSE JFail

\* json.loads: one value with nothing but white space around it
json_loads(text) ==
    LET v == ParseValue(LStrip(text))
    IN IF v.ok /\ LStrip(v.rest) = <<>> THEN Return(v.value)
       ELSE Raise("JSONDecodeError")

\* the grave accent character (U+0060), which a string of this notation
\* cannot hold
Backtick == "U+0060"

Fence == <<Backtick, Backtick, Backtick>>

\* _strip_code_fences (app.py:124-130)
_strip_code_fences(text) ==
    IF text = <<>> THEN text
    ELSE LET s0 == Strip(text)
             \* re.sub(r"^```(?:json)?\s*", "", s, flags=re.IGNORECASE)
             s1 == IF ~StartsWith(s0, Fence) THEN s0
                   ELSE LET r == Drop(s0, 3)
                        IN IF Len(r) >= 4 /\ Lower(SubSeq(r, 1, 4)) = <<"j", "s", "o", "n">>
                           THEN LStrip(Drop(r, 4))
                           ELSE LStrip(r)
             \* re.sub(r"\s*```$", "", s)
             s2 == IF EndsWith(s1, Fence)
                   THEN RStrip(SubSeq(s1, 1, Len(s1) - 3))
                   ELSE s1
         IN Strip(s2)

\* str.find and str.rfind, 0-based, -1 if absent
find(s, ch) ==
    IF \E k \in 1..Len(s) : s[k] = ch
    THEN (CHOOSE k \in 1..Len(s) : s[k] = ch /\ \A j \in 1..(k - 1) : s[j] # ch) - 1
    ELSE -1

\* a search that would stop at the nearest closing brace
rfind_nearest(s, ch) == find(s, ch)

rfind(s, ch) ==
    IF \E k \in 1..Len(s) : s[k] = ch
    THEN (CHOOSE k \in 1..Len(s) : s[k] = ch /\ \A j \in (k + 1)..Len(s) : s[j] # ch) - 1
    ELSE -1

Outcome(r, step) ==
    [raised |-> r.raised, value |-> IF r.raised THEN NoValue ELSE r.value,
     step |-> step]

\* _parse_model_json (app.py:133-146); `step` tells which of the three
\* attempts gave the result
_parse_model_json(text) ==
    LET s == _strip_code_fences(text)
        start == find(s, "{")
        end == rfind(s, "}")
    IN IF ~json_loads(text).raised THEN Outcome(json_loads(text), 1)
       ELSE IF ~json_loads(s).raised THEN Outcome(json_loads(s), 2)
       ELSE IF start # -1 /\ end # -1 /\ end > start
            THEN Outcome(json_loads(SubSeq(s, start + 1, end + 1)), 3)
            ELSE Outcome(Raise("JSONDecodeError"), 3)

\* the JSON objects a response may carry
Payloads ==
    { <<"{", "}">>,
      <<"{", "\"", "k", "\"", ":", "1", "}">>,
      <<"{", "\"", "k", "\"", ":", " ", "{", "}", "}">>,
      <<"{", "\"", "k", "\"", ":", "{", "\"", "k", "\"", ":", "1", "}", "}">> }

FenceOpenings ==
    { Fence \o <<"j", "s", "o", "n", "\n">>,
      Fence \o <<"\n">>,
      Fence \o <<"J", "S", "O", "N", " ">> }

FenceClosings == { <<"\n">> \o Fence, Fence }

\* prose without braces
ProseBefore == { <<"o", "k", " ">>, <<"o", "k", ":", "\n">> }

ProseAfter == { <<" ", "o", "k">>, <<"\n", "o", "k", ".">> }

\* prose that holds a brace of its own
BracedProseBefore == { <<"a", "{", " ">>, <<"{", "}", " ">> }

BracedProseAfter == { <<" ", "}">>, <<" ", "{", "x", "}">> }

\* texts with no JSON value in them
Garbage ==
    { <<>>, <<"o", "k">>, <<"{">>, <<"}", "{">>, Fence, <<"{", "x", "}">> }

ModelTexts ==
    {pre \o P \o post :
        P \in Payloads,
        pre \in {<<>>} \cup FenceOpenings \cup ProseBefore \cup BracedProseBefore,
        post \in {<<>>} \cup FenceClosings \cup ProseAfter \cup BracedProseAfter}
    \cup Garbage

ParseInit ==
    /\ MergeIdle
    /\ CritIdle
    /\ SegIdle
    /\ ExIdle
    /\ SrvIdle
    /\ ScanIdle
    /\ model_text \in ModelTexts
    /\ parse_pc = "call"
    /\ parsed = [raised |-> FALSE, value |-> NoValue, step |-> 0]

\* the call _parse_model_json(model_text) at the end of invoke_bedrock
ParseCall ==
    /\ parse_pc = "call"
    /\ parsed' = _parse_model_json(model_text)
    /\ parse_pc' = "done"
    /\ UNCHANGED <<model_text, mergeVars, critVars, segVars, exVars, srvVars, scanVars>>

ParseNext == ParseCall

SpecParse == ParseInit /\ [][ParseNext]_vars

(***************************************************************************)
(* Properties of _parse_model_json                                         *)
(***************************************************************************)
ObjectOf(P) == json_loads(P).value

\* the outcome the stated order of recovery steps asks for
InOrder(text) ==
    LET stripped == _strip_code_fences(text)
        first == find(stripped, "{")
        last == rfind(stripped, "}")
        span == IF first # -1 /\ last > first
                THEN json_loads(SubSeq(stripped, first + 1, last + 1))
                ELSE Raise("JSONDecodeError")
    IN IF ~json_loads(text).raised THEN Outcome(json_loads(text), 1)
       ELSE IF ~json_loads(stripped).raised THEN Outcome(json_loads(stripped), 2)
       ELSE Outcome(span, 3)

Recovers(text, P) ==
    (parse_pc = "done" /\ model_text = text) =>
        (~parsed.raised /\ parsed.value = ObjectOf(P))

\* C18 as stated: the payload itself, the payload in a code fence and the
\* payload within any leading and trailing prose all give the payload's
\* object, and the steps are tried in the order as-is, fence-stripped, brace
\* span, a failure being raised only when all three fail.
C18_TransparentToWrapping ==
    /\ parse_pc = "done" => parsed = InOrder(model_text)
    /\ \A P \in Payloads :
          /\ Recovers(P, P)
          /\ \A pre \in FenceOpenings, post \in FenceClosings :
                Recovers(pre \o P \o post, P)
          /\ \A pre \in {<<>>} \cup ProseBefore \cup BracedProseBefore,
                post \in {<<>>} \cup ProseAfter \cup BracedProseAfter :
                Recovers(pre \o P \o post, P)

\* C18, amended: the same for prose that holds no brace character.
C18_RecoversPayload ==
    /\ parse_pc = "done" => parsed = InOrder(model_text)
    /\ \A P \in Payloads :
          /\ Recovers(P, P)
          /\ \A pre \in FenceOpenings, post \in FenceClosings :
                Recovers(pre \o P \o post, P)
          /\ \A pre \in {<<>>} \cup ProseBefore, post \in {<<>>} \cup ProseAfter :
                Recovers(pre \o P \o post, P)

\* a nested object between prose on both sides, recovered by the brace span
C18_Witness ==
    /\ parse_pc = "done"
    /\ model_text = <<"o", "k", ":", "\n">>
                      \o <<"{", "\"", "k", "\"", ":", "{", "\"", "k", "\"", ":", "1", "}", "}">>
                      \o <<"\n", "o", "k", ".">>
    /\ parsed.step = 3
    /\ parsed.value = JValue("obj", <<JValue("obj", <<JValue("num", <<>>)>>)>>)

(***************************************************************************)
(* The server: /parse and /extract_cursor requests over the one            *)
(* PARSED_CACHE.  Requests are handled on threads of their own, so their   *)
(* steps interleave; a step runs a handler from one access of the cache to *)
(* the next.  A request is named by its place in the order of arrival, and *)
(* the fresh doc_id a parse issues (uuid4) by the name of that request.    *)
(***************************************************************************)
\* what a /parse request may carry: no "pdf" part, an empty file, a file
\* pdfminer cannot read, or a readable PDF
Uploads == {"missing", "empty", "unreadable", "pdf"}

\* a handler that would take an empty upload for a document
check_upload_lenient(upload) ==
    CASE upload = "missing" -> [status |-> 400, error |-> "No PDF uploaded"]
      [] upload = "unreadable" -> [status |-> 500, error |-> "PDF parse error"]
      [] OTHER -> [status |-> 200, error |-> ""]

\* the checks of parse_pdf before anything is cached (app.py:1089-1102)
check_upload(upload) ==
    CASE upload = "missing" -> [status |-> 400, error |-> "No PDF uploaded"]
      [] upload = "empty" -> [status |-> 400, error |-> "Could not read PDF"]
      [] upload = "unreadable" -> [status |-> 500, error |-> "PDF parse error"]
      [] OTHER -> [status |-> 200, error |-> ""]

\* a reset that would keep the entries
cache_kept(cache) == cache

\* PARSED_CACHE.clear()
cache_cleared(cache) == <<>>

\* a request: for /parse its upload and the doc_id it issued (0: none), for
\* /extract_cursor the doc_id asked for and the text it works on (0: none);
\* `calls` tells whether it called the collaborator
Request(kind, pc, upload, doc_id, status, text, calls) ==
    [kind |-> kind, pc |-> pc, upload |-> upload, doc_id |-> doc_id,
     status |-> status, text |-> text, calls |-> calls]

InProgress(r) == reqs[r].pc # "done"

SomeInProgress == \E r \in 1..Len(reqs) : InProgress(r)

SrvInit ==
    /\ MergeIdle
    /\ CritIdle
    /\ SegIdle
    /\ ExIdle
    /\ ParseIdle
    /\ ScanIdle
    /\ PARSED_CACHE = <<>>
    /\ reqs = <<>>
    /\ overlapped = FALSE

\* a /parse request arrives: the cache is cleared and the upload checked
\* (app.py:1087-1102)
ParseArrives ==
    /\ Len(reqs) < MaxRequests
    /\ \E upload \in Uploads :
          LET checked == check_upload(upload)
          IN reqs' = Append(reqs,
                 IF checked.status = 200
                 THEN Request("parse", "cleared", upload, 0, 0, 0, FALSE)
                 ELSE Request("parse", "done", upload, 0, checked.status, 0, FALSE))
    /\ PARSED_CACHE' = cache_cleared(PARSED_CACHE)
    /\ overlapped' = (overlapped \/ SomeInProgress)
    /\ UNCHANGED <<mergeVars, critVars, segVars, exVars, parseVars, scanVars>>

\* the parse stores its segments under a fresh doc_id and answers
\* (app.py:1104-1128)
ParseStores ==
    /\ \E r \in 1..Len(reqs) :
          /\ reqs[r].kind = "parse"
          /\ reqs[r].pc = "cleared"
          /\ PARSED_CACHE' = PARSED_CACHE @@ (r :> [full_text |-> r])
          /\ reqs' = [reqs EXCEPT ![r] = Request("parse", "done", "pdf", r, 200, 0, FALSE)]
    /\ UNCHANGED <<overlapped, mergeVars, critVars, segVars, exVars, parseVars, scanVars>>

\* an /extract_cursor/<doc_id> request arrives and looks the doc_id up
\* (app.py:1144-1145)
ExtractArrives ==
    /\ Len(reqs) < MaxRequests
    /\ \E doc_id \in 1..MaxRequests :
          reqs' = Append(reqs,
             IF doc_id \notin DOMAIN PARSED_CACHE
             THEN Request("extract", "done", "none", doc_id, 404, 0, FALSE)
             ELSE Request("extract", "checked", "none", doc_id, 0, 0, FALSE))
    /\ overlapped' = (overlapped \/ SomeInProgress)
    /\ UNCHANGED <<PARSED_CACHE, mergeVars, critVars, segVars, exVars, parseVars, scanVars>>

\* cache = PARSED_CACHE[doc_id] (app.py:1147); a KeyError is not handled and
\* ends the request with status 500
ExtractReads ==
    /\ \E r \in 1..Len(reqs) :
          /\ reqs[r].kind = "extract"
          /\ reqs[r].pc = "checked"
          /\ reqs' = [reqs EXCEPT ![r] =
                IF reqs[r].doc_id \in DOMAIN PARSED_CACHE
                THEN Request("extract", "running", "none", reqs[r].doc_id, 0,
                             PARSED_CACHE[reqs[r].doc_id].full_text, FALSE)
                ELSE Request("extract", "done", "none", reqs[r].doc_id, 500, 0, FALSE)]
    /\ UNCHANGED <<PARSED_CACHE, overlapped, mergeVars, critVars, segVars, exVars,
                   parseVars, scanVars>>

\* the phases run on the text read and the request answers with the result
\* or with a phase failure (app.py:1149-1359)
ExtractResponds ==
    /\ \E r \in 1..Len(reqs), status \in {200, 500} :
          /\ reqs[r].kind = "extract"
          /\ reqs[r].pc = "running"
          /\ reqs' = [reqs EXCEPT ![r] =
                Request("extract", "done", "none", reqs[r].doc_id, status,
                        reqs[r].text, TRUE)]
    /\ UNCHANGED <<PARSED_CACHE, overlapped, mergeVars, critVars, segVars, exVars,
                   parseVars, scanVars>>

SrvNext ==
    \/ ParseArrives
    \/ ParseStores
    \/ ExtractArrives
    \/ ExtractReads
    \/ ExtractResponds

SpecServer == SrvInit /\ [][SrvNext]_vars

(***************************************************************************)
(* Properties of the server                                                *)
(***************************************************************************)
\* the doc_ids issued so far
Issued == {r \in 1..Len(reqs) : reqs[r].kind = "parse" /\ reqs[r].status = 200}

Arrives(kind) == Len(reqs') = Len(reqs) + 1 /\ reqs'[Len(reqs')].kind = kind

Known(d) == d \in DOMAIN PARSED_CACHE

\* C13: a parse request empties the cache when it begins, so every doc_id
\* issued before is unknown to extraction from then on (404) and never
\* becomes known again; a doc_id stays known until the next parse request
\* begins; as long as requests did not overlap the cache holds at most one
\* document.
C13_ParseResetsCache ==
    [][/\ Arrives("parse") => \A d \in Issued : d \notin DOMAIN PARSED_CACHE'
       /\ \A d \in Issued : ~Known(d) => d \notin DOMAIN PARSED_CACHE'
       /\ \A d \in Issued : (Known(d) /\ d \notin DOMAIN PARSED_CACHE') => Arrives("parse")
       /\ Arrives("extract") =>
             LET new == reqs'[Len(reqs')]
             IN (new.status = 404) <=> ~Known(new.doc_id)
       /\ ~overlapped' => Cardinality(DOMAIN PARSED_CACHE') <= 1]_vars

\* an issued doc_id, a later parse request that was rejected, and then an
\* extraction of the doc_id answered 404
C13_Witness ==
    \E a, b, c \in 1..Len(reqs) :
        /\ a < b /\ b < c
        /\ a \in Issued
        /\ reqs[b].kind = "parse" /\ reqs[b].status = 400
        /\ reqs[c].kind = "extract" /\ reqs[c].doc_id = a /\ reqs[c].status = 404
        /\ ~overlapped

\* C14: no request changes or removes the cached segments of another
\* document's session (every arriving parse is a new document with a
\* session of its own).
C14_SessionsIndependent ==
    [][\A d \in DOMAIN PARSED_CACHE :
          d \in DOMAIN PARSED_CACHE' /\ PARSED_CACHE'[d] = PARSED_CACHE[d]]_vars

\* C15: at most one extraction of a doc_id is in progress at any time.
C15_SingleFlight ==
    \A a, b \in 1..Len(reqs) :
        (/\ reqs[a].kind = "extract" /\ reqs[b].kind = "extract"
         /\ InProgress(a) /\ InProgress(b)
         /\ reqs[a].doc_id = reqs[b].doc_id) => a = b

\* C19: a parse request without a document, or with an empty one, is
\* answered at once with an input error: it calls no collaborator, issues no
\* doc_id, leaves no cache entry, and nothing of it runs afterwards.
C19_InputErrorImmediate ==
    [][/\ Arrives("parse") =>
             LET new == reqs'[Len(reqs')]
             IN new.upload \in {"missing", "empty"} =>
                   /\ new.pc = "done"
                   /\ new.status = 400
                   /\ new.doc_id = 0
                   /\ ~new.calls
                   /\ Len(reqs') \notin DOMAIN PARSED_CACHE'
       /\ \A r \in 1..Len(reqs) :
             reqs[r].upload \in {"missing", "empty"} =>
                /\ reqs'[r] = reqs[r]
                /\ r \notin DOMAIN PARSED_CACHE']_vars

\* an empty upload was rejected while another parse was still running, and
\* that parse has stored its document since
C19_Witness ==
    \E a, b \in 1..Len(reqs) :
        /\ a < b
        /\ reqs[b].kind = "parse" /\ reqs[b].upload = "empty"
        /\ reqs[b].status = 400
        /\ DOMAIN PARSED_CACHE = {a}

(***************************************************************************)
(* Sequencing of the extraction phases                                     *)
(***************************************************************************)
PhasesBefore(ph) == {Phases[k] : k \in 1..(PhaseIndex(ph) - 1)}

\* C21: the phases run one after another: a phase is first called only when
\* every phase before it has returned its last response, a paginated phase
\* is left only on a response whose flag is not true, the accumulated
\* controls change only in the controls phase, and the criteria merge runs
\* after the criteria phase returned, on the controls as accumulated.
C21_PhasesInSequence ==
    [][/\ started' # started =>
             /\ started' = started \cup {ex_pc}
             /\ \A q \in PhasesBefore(ex_pc) : Succeeded(q) /\ q \in started
       /\ ex_pc' # ex_pc =>
             /\ ex_pc \in SeqToSet(Phases)
             /\ ex_pc' = IF ex_pc = "criteria" THEN "render"
                         ELSE Phases[PhaseIndex(ex_pc) + 1]
             /\ last_outcome' = "ok"
             /\ ex_pc \in PaginatedPhases => last_resp'.has_more # "true"
       /\ (ex_pc # "controls" /\ crit_pc' = crit_pc) =>
             merged_controls' = merged_controls
       /\ crit_pc' # crit_pc =>
             /\ ex_pc = "criteria" /\ ex_pc' = "render"
             /\ \A q \in PhasesBefore("criteria") : Succeeded(q)
             /\ controls_in' = merged_controls
             /\ final_controls' =
                   merge_criteria_into_controls(merged_controls, criteria_mappings')]_vars

\* the merge ran on the two controls of two passes and gave the first one
\* its mapped criterion
C21_Witness ==
    /\ crit_pc = "done"
    /\ passes = 2
    /\ Len(controls_in) = 2
    /\ final_controls # controls_in
    /\ started = SeqToSet(Phases)

(***************************************************************************)
(* The wait between attempts                                               *)
(***************************************************************************)
\* C22 as stated: after failed attempt k (k = 1, 2, ...) of a logical call
\* the wrapper waits 2^k time units.
C22_WaitTwoToK ==
    [][attempt' = attempt + 1 => slept' = 2^attempt']_vars

\* C22, amended: after failed attempt k (k = 1, 2, ...) the wrapper waits
\* 2^(k-1) time units, the last failed attempt included.
C22_WaitTwoToKMinusOne ==
    [][attempt' = attempt + 1 =>
          /\ slept' = 2^(attempt' - 1)
          /\ last_outcome' = "caught"]_vars

\* the third attempt of the controls call failed and was followed by a wait
\* of 4 before the failure was raised
C22_Witness ==
    /\ attempt = MAX_RETRIES
    /\ slept = 4
    /\ Failed
    /\ ex_pc = "controls"

(***************************************************************************)
(* One iteration of the loop of detect_section_markers, on any page: here  *)
(* a contents page may hold section headers of its own.                    *)
(***************************************************************************)
ScanPages ==
    [toc : BOOLEAN,
     standalone : HeaderTokens \cup {None},
     dash_after : HeaderTokens \cup {None},
     dash_before : DashTokens \cup {None},
     inline : DashTokens \cup {None},
     roman_standalone : RomanTokens \cup {None},
     roman_title : RomanTokens \cup {None},
     roman_title_near_top : BOOLEAN]

\* the values current_section may have when a page is scanned
ScanSections == {0, 2, 3}

\* an iteration that would read the headers of a contents page too
ScanPageReadingContents(current, page) ==
    LET section == NextSection(current, DetectedSection([page EXCEPT !.toc = FALSE]))
    IN [recorded |-> section, current |-> section]

\* the loop body (app.py:292-370): what it records for the page and the
\* current_section it leaves
ScanPage(current, page) ==
    IF page.toc THEN [recorded |-> current, current |-> current]
    ELSE LET section == NextSection(current, DetectedSection(page))
         IN [recorded |-> section, current |-> section]

ScanInit ==
    /\ MergeIdle
    /\ CritIdle
    /\ SegIdle
    /\ ExIdle
    /\ ParseIdle
    /\ SrvIdle
    /\ scan_pc = "scan"
    /\ scan_page \in ScanPages
    /\ scan_before \in ScanSections
    /\ scan_after = scan_before
    /\ scan_recorded = 0

ScanOnePage ==
    /\ scan_pc = "scan"
    /\ scan_recorded' = ScanPage(scan_before, scan_page).recorded
    /\ scan_after' = ScanPage(scan_before, scan_page).current
    /\ scan_pc' = "done"
    /\ UNCHANGED <<scan_page, scan_before, mergeVars, critVars, segVars, exVars,
                   parseVars, srvVars>>

ScanNext == ScanOnePage

SpecScan == ScanInit /\ [][ScanNext]_vars

\* C25: a contents page records the current_section of the page before it
\* and leaves current_section as it was, whatever headers it holds.
C25_ContentsPageKeepsSection ==
    (scan_pc = "done" /\ scan_page.toc) =>
        /\ scan_recorded = scan_before
        /\ scan_after = scan_before

\* a contents page listing "SECTION 3" scanned while the section is 2
C25_Witness ==
    /\ scan_pc = "done"
    /\ scan_page.toc
    /\ scan_page.standalone = <<"3">>
    /\ scan_before = 2
    /\ scan_after = 2
    /\ scan_recorded = 2

\* the tokens of the matchers that match the page, in the matchers' order
MatchedTokens(page) ==
    SelectSeq(<<page.standalone, page.dash_after, page.dash_before, page.inline,
                page.roman_standalone,
                IF page.roman_title_near_top THEN page.roman_title ELSE None>>,
              LAMBDA token : token # None)

\* C26: the first matcher that matches decides the page: its number becomes
\* the section, and if its token is unparsable the page yields 0 and
\* current_section stays as it was; later matchers are not consulted.
C26_FirstMatchWins ==
    (scan_pc = "done" /\ ~scan_page.toc /\ MatchedTokens(scan_page) # <<>>) =>
        LET first == parse_section_number(Head(MatchedTokens(scan_page)))
        IN /\ scan_after = (IF first > 0 THEN first ELSE scan_before)
           /\ scan_recorded = scan_after

\* the page markers of a stream, in the stream's order
MarkersOf(parts) == [j \in 1..Len(parts) |-> parts[j].marker]

\* C23: in the output of segment_content every page classified narrative
\* that immediately precedes a page classified table is in the table stream
\* as well.
C23_WideningPass ==
    seg_pc = "done" =>
        \A k \in 1..(npages - 1) :
            (~classifications[k].is_table /\ classifications[k + 1].is_table) =>
                \E j \in 1..Len(table_parts) : table_parts[j].marker = k

\* C24 as stated: a page of section 0 is not forced, and is table exactly
\* when its structural score is >= 2.
C24_UndeterminedUsesScore ==
    \A k \in 1..Len(classifications) :
        classifications[k].section = 0 =>
            /\ ~classifications[k].forced_narrative
            /\ ~classifications[k].forced_table
            /\ classifications[k].is_table <=> struct_table[k]

\* C24 as the code has it: a page of section 0 is forced narrative whatever
\* its structural score, and no page is left to the structural score.
C24_SectionZeroForcedNarrative ==
    \A k \in 1..Len(classifications) :
        /\ classifications[k].section = 0 =>
              /\ classifications[k].forced_narrative
              /\ ~classifications[k].is_table
              /\ classifications[k].reasons = "before_section_iii"
        /\ classifications[k].forced_narrative \/ classifications[k].forced_table

\* two unmarked pages, one scoring like a table and one not: both narrative
C24_Witness ==
    /\ seg_pc = "done"
    /\ npages = 2
    /\ detected = <<0, 0>>
    /\ struct_table = <<TRUE, FALSE>>
    /\ ~classifications[1].is_table
    /\ ~classifications[2].is_table
    /\ MarkersOf(narrative_parts) = <<1, 2>>

\* C28: each page goes, under its 1-based page marker, into the stream of
\* its classification; each stream is in increasing page order; the
\* classification trail has one entry per page, in page order.
C28_StreamsKeepPageOrder ==
    /\ Len(classifications) <= npages
    /\ \A k \in 1..Len(classifications) : classifications[k].page = k
    /\ seg_pc \in {"build", "done"} => Len(classifications) = npages
    /\ seg_pc = "done" =>
          /\ Len(table_parts) + Len(narrative_parts) = npages
          /\ \A k \in 1..npages :
                IF classifications[k].is_table
                THEN \E j \in 1..Len(table_parts) : table_parts[j].marker = k
                ELSE \E j \in 1..Len(narrative_parts) : narrative_parts[j].marker = k
          /\ \A parts \in {table_parts, narrative_parts} :
                /\ \A j \in 1..Len(parts) : parts[j].marker = parts[j].text_of + 1
                /\ \A i, j \in 1..Len(parts) :
                      i < j => parts[i].marker < parts[j].marker

\* table, narrative, table: pages 1 and 3 in one stream, page 2 in the other
C28_Witness ==
    /\ seg_pc = "done"
    /\ npages = 3
    /\ detected = <<3, 2, 3>>
    /\ MarkersOf(table_parts) = <<1, 3>>
    /\ MarkersOf(narrative_parts) = <<2>>
    /\ [k \in 1..3 |-> classifications[k].page] = <<1, 2, 3>>

\* no record occurs twice in the list
NoRecordTwice(list) ==
    \A i, j \in 1..Len(list) : i # j => list[i] # list[j]

\* C27: the accumulated subservice and user-entity lists never hold the same
\* record twice, whatever the collaborator repeats across passes.
C27_AccumulationDeduplicated ==
    /\ NoRecordTwice(merged_subservice)
    /\ NoRecordTwice(merged_user_entity)

\* C29: in the primary controls of a successful response the synthesized
\* ids are pairwise distinct, after any number of passes.
C29_SynthesizedIdsDistinct ==
    Answered =>
        LET final == response.result.extraction.vendor_controls
        IN \A i, j \in 1..Len(final) :
              (/\ i # j
               /\ IsSynthId(final[i].control_id)
               /\ IsSynthId(final[j].control_id))
                  => final[i].control_id # final[j].control_id

\* C30: an extraction that passed the doc_id lookup runs its phases on the
\* text of its own document and ends only by answering after them, in every
\* interleaving with parse requests.
C30_KeepsOwnSegments ==
    \A r \in 1..Len(reqs) :
        (reqs[r].kind = "extract" /\ reqs[r].status # 404) =>
            /\ reqs[r].pc = "done" => reqs[r].calls
            /\ reqs[r].pc \in {"running", "done"} => reqs[r].text = reqs[r].doc_id

====
